---- MODULE Spec2Model ----
(***************************************************************************)
(* fatiando.potential.basin2d: the triangular-basin data module            *)
(* (TriangularGzDM) and the inversion driver (triangular and its two       *)
(* execution modes, _triangular_solver and _triangular_iterator).          *)
(*                                                                         *)
(* Two specifications share the module:                                    *)
(*   SpecRun  the driver.  One solver (a fixed sequence of change sets and *)
(*            the way its iterator ends) is run once through               *)
(*            triangular(dms, solver, iterate=False) and once through      *)
(*            triangular(dms, solver, iterate=True).                       *)
(*   SpecDM   one TriangularGzDM: its construction, then any sequence of   *)
(*            get_predicted, sum_gradient and sum_hessian calls.           *)
(*                                                                         *)
(* Numbers are exact: coordinates are small integers (which the float32    *)
(* and float64 casts of the source represent exactly) and the quotients by *)
(* delta[-1] are rationals <<numerator, denominator>> in lowest terms.     *)
(***************************************************************************)
EXTENDS Integers, Sequences, FiniteSets

VARIABLES
    \* ---- the solver handed to triangular (fatiando.inversion)
    script,      \* the change sets its iterator produces, in order
    solverEnd,   \* how the iterator ends after them
    \* ---- triangular(dms, solver, iterate=False)
    sv_pc,       \* NotStarted, Iterating, Returned, Raised
    sv_pos,      \* number of change sets taken from the solver's iterator
    sv_i,        \* loop variable i of _triangular_solver
    sv_chset,    \* loop variable chset of _triangular_solver
    sv_log,      \* what the call has logged
    sv_ret,      \* the value returned to the caller
    sv_exc,      \* the exception raised to the caller
    \* ---- triangular(dms, solver, iterate=True)
    it_pc,       \* NotCalled, Created, Suspended, Exhausted, Raised, Closed
    it_pos,
    it_i,
    it_chset,
    it_log,
    it_yielded,  \* the pairs handed to the consumer so far
    it_exc,
    \* ---- one TriangularGzDM
    dm_pc,       \* NotConstructed, Constructed, Failed
    dm_exc,      \* the exception __init__ raised
    dm,          \* the attributes __init__ has stored
    in_xp, in_zp, in_data, in_verts,   \* the arguments __init__ was given
    jac_T,       \* the attribute self.jac_T
    op,          \* the last method called: its name, arguments and outcome
    kcalls,      \* the forward-kernel calls the last method made
    gradP        \* the point of the most recent sum_gradient call

runVars == <<script, solverEnd, sv_pc, sv_pos, sv_i, sv_chset, sv_log, sv_ret,
             sv_exc, it_pc, it_pos, it_i, it_chset, it_log, it_yielded, it_exc>>
svVars == <<sv_pc, sv_pos, sv_i, sv_chset, sv_log, sv_ret, sv_exc>>
itVars == <<it_pc, it_pos, it_i, it_chset, it_log, it_yielded, it_exc>>
dmVars == <<dm_pc, dm_exc, dm, in_xp, in_zp, in_data, in_verts, jac_T, op,
            kcalls, gradP>>
vars == <<runVars, dmVars>>

\* A name or attribute that may be unbound: <<>> when unbound, <<v>> when
\* bound to v.  No exception: "None".
Unbound == <<>>
Bound(v) == <<v>>
ValueOf(b) == b[1]
None == "None"

(***************************************************************************)
(* Bounds of the model.                                                    *)
(***************************************************************************)
MaxIter == 3         \* longest sequence of change sets a solver produces
NumChangeSets == 2   \* distinct change sets a solver may produce
MaxObs == 2          \* longest xp, zp or data handed to __init__
MaxVerts == 3        \* longest verts handed to __init__

(***************************************************************************)
(* The solver: an opaque iterator factory.  The k-th distinct change set   *)
(* has its own estimate, residuals and misfit/goal histories.              *)
(***************************************************************************)
ChangeSet(k) ==
    [estimate  |-> <<10 * k, k>>,
     residuals |-> << <<k - 1, 1 - k>> >>,
     misfits   |-> [j \in 1..k |-> 30 - j],
     goals     |-> [j \in 1..k |-> 40 - j]]

ChangeSets == {ChangeSet(k) : k \in 1..NumChangeSets}

Scripts == UNION {[1..n -> ChangeSets] : n \in 0..MaxIter}

SolverEnds == {"StopIteration", "LinAlgError", "RuntimeError"}

\* next() on the solver's iterator after pos change sets were taken.
SolverNext(s, end, pos) ==
    IF pos < Len(s) THEN [kind |-> "chset", chset |-> s[pos + 1]]
    ELSE [kind |-> end]

Last(s) == s[Len(s)]

(***************************************************************************)
(* The driver.                                                             *)
(***************************************************************************)
\* log.info of triangular, before either mode starts.
HeaderLog(iterate) ==
    << <<"Estimating relief of a triangular basin:">>,
       <<IF iterate THEN "  iterate: True" ELSE "  iterate: False">> >>

\* FinalLog reading the first entry of the misfit and goal histories.
FinalLogFirstEntry(i, chset) ==
    << <<"  number of iterations: %d", i>>,
       <<"  final data misfit: %g", chset.misfits[1]>>,
       <<"  final goal function: %g", chset.goals[1]>>,
       <<"  time: %s">> >>

\* The four log.info calls that end a run; the elapsed time is not modelled.
FinalLog(i, chset) ==
    << <<"  number of iterations: %d", i>>,
       <<"  final data misfit: %g", Last(chset.misfits)>>,
       <<"  final goal function: %g", Last(chset.goals)>>,
       <<"  time: %s">> >>

\* except numpy.linalg.linalg.LinAlgError: raise ValueError, "Oops, ..."
SingularHessian == "ValueError: Oops, the Hessian is a singular matrix. Try applying more regularization"
\* TranslateError without the except clause.
TranslateErrorRaw(kind) == kind

TranslateError(kind) ==
    IF kind = "LinAlgError" THEN SingularHessian ELSE kind

\* chset['estimate'], chset['residuals']
PairOf(chset) == <<chset.estimate, chset.residuals>>

\* Rebind keeping the first binding.
RebindFirst(old, new) == IF old = Unbound THEN Bound(new) ELSE old

\* The for statement rebinds its targets at every iteration.
Rebind(old, new) == Bound(new)

\* AfterLoop with the statements after the loop skipped when the loop body
\* never ran.
AfterLoopGuarded(i, chset) ==
    IF i = Unbound \/ chset = Unbound
    THEN [exc |-> None, log |-> <<>>, ret |-> Unbound]
    ELSE [exc |-> None,
          log |-> FinalLog(ValueOf(i), ValueOf(chset)),
          ret |-> Bound(PairOf(ValueOf(chset)))]

\* The statements after the loop read i and chset: an UnboundLocalError at
\* the first of them when the loop body never ran, else the final log and
\* (in _triangular_solver) the returned pair.
AfterLoop(i, chset) ==
    IF i = Unbound \/ chset = Unbound
    THEN [exc |-> "UnboundLocalError", log |-> <<>>, ret |-> Unbound]
    ELSE [exc |-> None,
          log |-> FinalLog(ValueOf(i), ValueOf(chset)),
          ret |-> Bound(PairOf(ValueOf(chset)))]

\* triangular(dms, solver, iterate=False) up to the first request to the
\* solver's iterator.
triangular_solver_call ==
    /\ sv_pc = "NotStarted"
    /\ sv_pc' = "Iterating"
    /\ sv_log' = HeaderLog(FALSE)
    /\ UNCHANGED <<sv_pos, sv_i, sv_chset, sv_ret, sv_exc>>
    /\ UNCHANGED <<script, solverEnd, itVars, dmVars>>

\* One iteration of the for loop of _triangular_solver: continue.
solver_loop ==
    /\ sv_pc = "Iterating"
    /\ LET r == SolverNext(script, solverEnd, sv_pos) IN
        /\ r.kind = "chset"
        /\ sv_i' = Rebind(sv_i, sv_pos)
        /\ sv_chset' = Rebind(sv_chset, r.chset)
        /\ sv_pos' = sv_pos + 1
    /\ UNCHANGED <<sv_pc, sv_log, sv_ret, sv_exc>>
    /\ UNCHANGED <<script, solverEnd, itVars, dmVars>>

\* solver_raise with the error swallowed: the loop ends and the statements
\* after it run on the last change set.
solver_raise_swallowed ==
    /\ sv_pc = "Iterating"
    /\ SolverNext(script, solverEnd, sv_pos).kind \notin {"chset", "StopIteration"}
    /\ LET a == AfterLoop(sv_i, sv_chset) IN
        /\ sv_pc' = IF a.exc = None THEN "Returned" ELSE "Raised"
        /\ sv_exc' = a.exc
        /\ sv_log' = sv_log \o a.log
        /\ sv_ret' = a.ret
    /\ UNCHANGED <<sv_pos, sv_i, sv_chset>>
    /\ UNCHANGED <<script, solverEnd, itVars, dmVars>>

\* The solver's iterator raises: the except clause of _triangular_solver.
solver_raise ==
    /\ sv_pc = "Iterating"
    /\ LET r == SolverNext(script, solverEnd, sv_pos) IN
        /\ r.kind \notin {"chset", "StopIteration"}
        /\ sv_exc' = TranslateError(r.kind)
    /\ sv_pc' = "Raised"
    /\ UNCHANGED <<sv_pos, sv_i, sv_chset, sv_log, sv_ret>>
    /\ UNCHANGED <<script, solverEnd, itVars, dmVars>>

\* The solver's iterator is exhausted: the final log and the return.
solver_finish ==
    /\ sv_pc = "Iterating"
    /\ SolverNext(script, solverEnd, sv_pos).kind = "StopIteration"
    /\ LET a == AfterLoop(sv_i, sv_chset) IN
        /\ sv_pc' = IF a.exc = None THEN "Returned" ELSE "Raised"
        /\ sv_exc' = a.exc
        /\ sv_log' = sv_log \o a.log
        /\ sv_ret' = a.ret
    /\ UNCHANGED <<sv_pos, sv_i, sv_chset>>
    /\ UNCHANGED <<script, solverEnd, itVars, dmVars>>

\* triangular(dms, solver, iterate=True): returns the generator, not started.
triangular_iterator_call ==
    /\ it_pc = "NotCalled"
    /\ it_pc' = "Created"
    /\ it_log' = HeaderLog(TRUE)
    /\ UNCHANGED <<it_pos, it_i, it_chset, it_yielded, it_exc>>
    /\ UNCHANGED <<script, solverEnd, svVars, dmVars>>

\* The consumer requests a value and the solver has a change set: the
\* generator yields its pair and is suspended at the yield.
iterator_yield ==
    /\ it_pc \in {"Created", "Suspended"}
    /\ LET r == SolverNext(script, solverEnd, it_pos) IN
        /\ r.kind = "chset"
        /\ it_i' = Rebind(it_i, it_pos)
        /\ it_chset' = Rebind(it_chset, r.chset)
        /\ it_pos' = it_pos + 1
        /\ it_yielded' = Append(it_yielded, PairOf(ValueOf(it_chset')))
    /\ it_pc' = "Suspended"
    /\ UNCHANGED <<it_log, it_exc>>
    /\ UNCHANGED <<script, solverEnd, svVars, dmVars>>

\* The consumer requests a value and the solver's iterator raises.
iterator_raise ==
    /\ it_pc \in {"Created", "Suspended"}
    /\ LET r == SolverNext(script, solverEnd, it_pos) IN
        /\ r.kind \notin {"chset", "StopIteration"}
        /\ it_exc' = TranslateError(r.kind)
    /\ it_pc' = "Raised"
    /\ UNCHANGED <<it_pos, it_i, it_chset, it_log, it_yielded>>
    /\ UNCHANGED <<script, solverEnd, svVars, dmVars>>

\* The consumer requests a value and the solver's iterator is exhausted:
\* the final log, then the generator ends (StopIteration to the consumer).
iterator_finish ==
    /\ it_pc \in {"Created", "Suspended"}
    /\ SolverNext(script, solverEnd, it_pos).kind = "StopIteration"
    /\ LET a == AfterLoop(it_i, it_chset) IN
        /\ it_pc' = IF a.exc = None THEN "Exhausted" ELSE "Raised"
        /\ it_exc' = a.exc
        /\ it_log' = it_log \o a.log
    /\ UNCHANGED <<it_pos, it_i, it_chset, it_yielded>>
    /\ UNCHANGED <<script, solverEnd, svVars, dmVars>>

\* The consumer abandons the generator (close(), or the last reference is
\* dropped): GeneratorExit is raised at the yield, no except clause of
\* _triangular_iterator matches it, and nothing after the loop runs.
iterator_close ==
    /\ it_pc \in {"Created", "Suspended"}
    /\ it_pc' = "Closed"
    /\ UNCHANGED <<it_pos, it_i, it_chset, it_log, it_yielded, it_exc>>
    /\ UNCHANGED <<script, solverEnd, svVars, dmVars>>

(***************************************************************************)
(* Exact arithmetic: a rational is <<n, d>> with d > 0 in lowest terms.    *)
(***************************************************************************)
Abs(a) == IF a < 0 THEN -a ELSE a

RECURSIVE GCD(_, _)
GCD(a, b) == IF b = 0 THEN a ELSE GCD(b, a % b)

Rat(n, d) ==
    LET g == GCD(Abs(n), Abs(d))
        sgn == IF d < 0 THEN -1 ELSE 1
    IN <<sgn * (n \div g), sgn * (d \div g)>>

RInt(n) == <<n, 1>>
RAdd(a, b) == Rat(a[1] * b[2] + b[1] * a[2], a[2] * b[2])
RSub(a, b) == Rat(a[1] * b[2] - b[1] * a[2], a[2] * b[2])
RMul(a, b) == Rat(a[1] * b[1], a[2] * b[2])

RECURSIVE RSum(_)
RSum(s) == IF s = <<>> THEN RInt(0) ELSE RAdd(s[1], RSum(Tail(s)))

\* numpy.dot of a vector of rationals with a vector of rationals
RDot(u, v) == RSum([k \in 1..Len(u) |-> RMul(u[k], v[k])])

VecAdd(a, b) == [k \in 1..Len(a) |-> a[k] + b[k]]
VecSub(a, b) == [k \in 1..Len(a) |-> a[k] - b[k]]
RVec(v) == [k \in 1..Len(v) |-> RInt(v[k])]

RECURSIVE Sum(_)
Sum(s) == IF s = <<>> THEN 0 ELSE s[1] + Sum(Tail(s))

(***************************************************************************)
(* The forward kernel _talwani.talwani_gz(prop, xs, zs, xp, zp): a pure    *)
(* function of the polygon and the observation points, one value per       *)
(* observation.  Each edge of the polygon contributes its signed area      *)
(* about the observation point, weighted by the horizontal distances of    *)
(* its ends, so that the value depends on every coordinate and changes     *)
(* sign when the order of the vertices is reversed.                        *)
(***************************************************************************)
EdgeTerm(xi, zi, xj, zj) == (xi * zj - xj * zi) * (1 + xi * xi + xj * xj)

talwani_gz(prop, xs, zs, xp, zp) ==
    [k \in 1..Len(xp) |->
        prop * Sum([i \in 1..Len(xs) |->
            LET j == (i % Len(xs)) + 1 IN
            EdgeTerm(xs[i] - xp[k], zs[i] - zp[k],
                     xs[j] - xp[k], zs[j] - zp[k])])]

(***************************************************************************)
(* TriangularGzDM.                                                         *)
(***************************************************************************)
ShapeError == "ValueError: xp, zp, and data must be of same length"
VertsError == "ValueError: Need exactly 2 vertices"

\* if len(xp) != len(zp) != len(data): a chained comparison, which Python
\* evaluates as (len(xp) != len(zp)) and (len(zp) != len(data)).
LengthsRejected(xp, zp, data) == Len(xp) # Len(zp) /\ Len(zp) # Len(data)

\* VertsRejected accepting any two or more vertices.
VertsRejectedFewer(verts) == Len(verts) < 2

\* if len(verts) != 2
VertsRejected(verts) == Len(verts) # 2

\* self.delta = numpy.array([0., 0., delta], dtype='f')
DeltaArray(delta) == <<0, 0, delta>>

\* The arguments __init__ is given.
ObsX(n) == [k \in 1..n |-> 2 * (k - 1)]
ObsZ(n) == [k \in 1..n |-> 0]
ObsData(n) == [k \in 1..n |-> 10 - k]
Verts(n) == [i \in 1..n |-> <<3 * (i - 1) - 1, i % 2>>]
Props == {1, -2}
Deltas == {1, 2}
\* The candidate free vertices a solver asks about.
Points == {<<0, 1>>, <<1, 2>>, <<2, 1>>}

TriangularGzDM_init ==
    /\ dm_pc = "NotConstructed"
    /\ \E nx \in 1..MaxObs, nz \in 1..MaxObs, nd \in 1..MaxObs,
          nv \in 0..MaxVerts, prop \in Props, delta \in Deltas :
        LET xp == ObsX(nx)
            zp == ObsZ(nz)
            data == ObsData(nd)
            verts == Verts(nv)
        IN
        /\ in_xp' = xp /\ in_zp' = zp /\ in_data' = data /\ in_verts' = verts
        /\ IF LengthsRejected(xp, zp, data)
           THEN /\ dm_pc' = "Failed"
                /\ dm_exc' = ShapeError
                /\ UNCHANGED dm
           ELSE IF VertsRejected(verts)
           THEN /\ dm_pc' = "Failed"
                /\ dm_exc' = VertsError
                /\ UNCHANGED dm
           ELSE /\ dm_pc' = "Constructed"
                /\ dm' = Bound([xp |-> xp, zp |-> zp, prop |-> prop,
                                verts |-> verts, delta |-> DeltaArray(delta)])
                /\ UNCHANGED dm_exc
    /\ UNCHANGED <<jac_T, op, kcalls, gradP>>
    /\ UNCHANGED runVars

\* tmp = [v for v in self.verts]; tmp.append(p);
\* xs, zs = numpy.array(tmp, dtype='f').T
PolygonXs(self, p) == [i \in 1..Len(self.verts) + 1 |-> Append(self.verts, p)[i][1]]
PolygonZs(self, p) == [i \in 1..Len(self.verts) + 1 |-> Append(self.verts, p)[i][2]]

\* One call of the kernel: its polygon.
KCall(xs, zs) == [xs |-> xs, zs |-> zs]
Forward(self, c) == talwani_gz(self.prop, c.xs, c.zs, self.xp, self.zp)

\* The kernel takes obsXs and obsZs of one length.
KernelDefined(self) == Len(self.xp) = Len(self.zp)

get_predicted ==
    /\ dm_pc = "Constructed"
    /\ KernelDefined(ValueOf(dm))
    /\ \E p \in Points :
        LET self == ValueOf(dm)
            c == KCall(PolygonXs(self, p), PolygonZs(self, p))
        IN
        /\ op' = [name |-> "get_predicted", p |-> p, exc |-> None,
                  result |-> Bound(Forward(self, c))]
        /\ kcalls' = <<c>>
    /\ UNCHANGED <<dm_pc, dm_exc, dm, in_xp, in_zp, in_data, in_verts,
                   jac_T, gradP>>
    /\ UNCHANGED runVars

\* The accumulators and residuals a solver passes in.
Gradients == {<<0, 0>>, <<1, -3>>}
Hessians == {<< <<0, 0>>, <<0, 0>> >>, << <<2, 1>>, <<1, 3>> >>}
ResidualVecs(n) == {[k \in 1..n |-> 1], [k \in 1..n |-> 2 * k - 3]}

\* PerturbedX adding the interval to the z-coordinates.
PerturbedXAsZ(xs, zs, delta) == KCall(xs, VecAdd(zs, delta))

\* talwani_gz(self.prop, xs + delta, zs, xp, zp)
PerturbedX(xs, zs, delta) == KCall(VecAdd(xs, delta), zs)
\* talwani_gz(self.prop, xs, zs + delta, xp, zp)
PerturbedZ(xs, zs, delta) == KCall(xs, VecAdd(zs, delta))

\* (talwani_gz(...) - at_p)/delta[-1]
ForwardDifference(pert, at_p, delta) ==
    [k \in 1..Len(at_p) |-> Rat(pert[k] - at_p[k], Last(delta))]

\* The body of sum_gradient up to the assignment of self.jac_T: the three
\* kernel calls and the two rows of the Jacobian-transpose.
Jacobian(self, p) ==
    LET delta == self.delta
        xs == PolygonXs(self, p)
        zs == PolygonZs(self, p)
        c0 == KCall(xs, zs)
        cx == PerturbedX(xs, zs, delta)
        cz == PerturbedZ(xs, zs, delta)
        at_p == Forward(self, c0)
        jacx == ForwardDifference(Forward(self, cx), at_p, delta)
        jacz == ForwardDifference(Forward(self, cz), at_p, delta)
    IN [jac_T |-> <<jacx, jacz>>, calls |-> <<c0, cx, cz>>]

\* GradientResult with the contribution added.
GradientResultPlus(gradient, jac, residuals) ==
    [j \in 1..Len(jac) |->
        RAdd(RInt(gradient[j]), RMul(RInt(2), RDot(jac[j], RVec(residuals))))]

\* gradient - 2.*numpy.dot(self.jac_T, residuals)
GradientResult(gradient, jac, residuals) ==
    [j \in 1..Len(jac) |->
        RSub(RInt(gradient[j]), RMul(RInt(2), RDot(jac[j], RVec(residuals))))]

\* HessianResult with the Jacobian recomputed at the point it is given.
HessianResultFresh(hessian, p, jac) ==
    LET fresh == Jacobian(ValueOf(dm), p).jac_T IN
    [a \in 1..Len(fresh) |-> [b \in 1..Len(fresh) |->
        RAdd(RInt(hessian[a][b]), RMul(RInt(2), RDot(fresh[a], fresh[b])))]]

\* hessian + 2*numpy.dot(self.jac_T, self.jac_T.T)
HessianResult(hessian, p, jac) ==
    [a \in 1..Len(jac) |-> [b \in 1..Len(jac) |->
        RAdd(RInt(hessian[a][b]), RMul(RInt(2), RDot(jac[a], jac[b])))]]

sum_gradient ==
    /\ dm_pc = "Constructed"
    /\ KernelDefined(ValueOf(dm))
    /\ \E p \in Points, gradient \in Gradients,
          residuals \in ResidualVecs(Len(ValueOf(dm).xp)) :
        LET J == Jacobian(ValueOf(dm), p) IN
        /\ jac_T' = Bound(J.jac_T)
        /\ kcalls' = J.calls
        /\ gradP' = Bound(p)
        /\ op' = [name |-> "sum_gradient", p |-> p, exc |-> None,
                  acc |-> gradient, acc_after |-> gradient,
                  residuals |-> residuals,
                  result |-> Bound(GradientResult(gradient, J.jac_T,
                                                  residuals))]
    /\ UNCHANGED <<dm_pc, dm_exc, dm, in_xp, in_zp, in_data, in_verts>>
    /\ UNCHANGED runVars

\* self.jac_T is an attribute only sum_gradient assigns: before that,
\* reading it raises AttributeError.
sum_hessian ==
    /\ dm_pc = "Constructed"
    /\ \E p \in Points, hessian \in Hessians :
        /\ op' = IF jac_T = Unbound
                 THEN [name |-> "sum_hessian", p |-> p,
                       exc |-> "AttributeError", acc |-> hessian,
                       acc_after |-> hessian, result |-> Unbound]
                 ELSE [name |-> "sum_hessian", p |-> p, exc |-> None,
                       acc |-> hessian, acc_after |-> hessian,
                       result |-> Bound(HessianResult(hessian, p,
                                                      ValueOf(jac_T)))]
        /\ kcalls' = <<>>
    /\ UNCHANGED <<dm_pc, dm_exc, dm, in_xp, in_zp, in_data, in_verts,
                   jac_T, gradP>>
    /\ UNCHANGED runVars

InitRunVars ==
    /\ script \in Scripts
    /\ solverEnd \in SolverEnds
    /\ sv_pc = "NotStarted" /\ sv_pos = 0 /\ sv_i = Unbound
    /\ sv_chset = Unbound /\ sv_log = <<>> /\ sv_ret = Unbound
    /\ sv_exc = None
    /\ it_pc = "NotCalled" /\ it_pos = 0 /\ it_i = Unbound
    /\ it_chset = Unbound /\ it_log = <<>> /\ it_yielded = <<>>
    /\ it_exc = None

InitDMVars ==
    /\ dm_pc = "NotConstructed" /\ dm_exc = None /\ dm = Unbound
    /\ in_xp = <<>> /\ in_zp = <<>> /\ in_data = <<>> /\ in_verts = <<>>
    /\ jac_T = Unbound /\ op = [name |-> "none"] /\ kcalls = <<>>
    /\ gradP = Unbound

NextRun ==
    \/ triangular_solver_call
    \/ solver_loop
    \/ solver_raise
    \/ solver_finish
    \/ triangular_iterator_call
    \/ iterator_yield
    \/ iterator_raise
    \/ iterator_finish
    \/ iterator_close

NextDM ==
    \/ TriangularGzDM_init
    \/ get_predicted
    \/ sum_gradient
    \/ sum_hessian

\* The driver: a solver is chosen, no data module is looked at.
InitRun == InitRunVars /\ InitDMVars

\* One data module: the driver stays idle, with a solver that produces
\* nothing.
InitDM == InitDMVars /\ InitRunVars /\ script = <<>> /\ solverEnd = "StopIteration"

SpecRun == InitRun /\ [][NextRun]_vars
SpecDM == InitDM /\ [][NextDM]_vars

(***************************************************************************)
(* Properties of the driver, under SpecRun.                                *)
(***************************************************************************)
\* The (estimate, residuals) pair of each change set of the solver.
ExpectedPairs ==
    [k \in 1..Len(script) |-> <<script[k].estimate, script[k].residuals>>]

FinalLogged(log) ==
    \E k \in 1..Len(log) : log[k][1] = "  number of iterations: %d"

\* C1: with a solver that produces one or more change sets and then ends
\* without error, iterate=True yields one pair per change set, in the
\* solver's order, and its last pair equals what iterate=False returns: the
\* estimate and residuals of the final change set.
C1_StreamingEndsAtReturned ==
    (solverEnd = "StopIteration" /\ Len(script) >= 1) =>
        /\ it_yielded = SubSeq(ExpectedPairs, 1, it_pos)
        /\ it_pc = "Exhausted" => Len(it_yielded) = Len(script)
        /\ sv_pc = "Returned" =>
              sv_ret = Bound(<<Last(script).estimate, Last(script).residuals>>)
        /\ (it_pc = "Exhausted" /\ sv_pc = "Returned") =>
              sv_ret = Bound(Last(it_yielded))

C1_Witness ==
    /\ it_pc = "Exhausted" /\ sv_pc = "Returned"
    /\ Len(script) >= 2 /\ script[1] # Last(script)

\* C2: in both modes, a LinAlgError of the solver's iterator, at the first
\* or at a later change set, ends the run with the singular-Hessian
\* ValueError: never with the raw LinAlgError, never normally.
C2_SingularityTranslated ==
    /\ sv_exc # "LinAlgError" /\ it_exc # "LinAlgError"
    /\ solverEnd = "LinAlgError" =>
        /\ sv_pc \in {"Returned", "Raised"} =>
              (sv_pc = "Raised" /\ sv_exc = SingularHessian /\ sv_ret = Unbound)
        /\ it_pc \in {"Exhausted", "Raised"} =>
              (it_pc = "Raised" /\ it_exc = SingularHessian)

C2_Witness ==
    /\ sv_exc = SingularHessian /\ it_exc = SingularHessian
    /\ Len(script) >= 1

\* C5 as claimed: a run that ends with the singular-Hessian error has handed
\* no (estimate, residuals) value to its caller, in either mode.
C5_NoValueBeforeAbort ==
    /\ sv_exc = SingularHessian => sv_ret = Unbound
    /\ it_exc = SingularHessian => it_yielded = <<>>

\* C5 amended: a run whose solver fails with LinAlgError returns nothing in
\* non-streaming mode; in streaming mode it has yielded, before the error,
\* exactly one pair for each change set the solver produced, and nothing
\* for the failing step.
C5_NoReturnButYieldedPrefix ==
    /\ (solverEnd = "LinAlgError" /\ sv_pc \in {"Returned", "Raised"}) =>
          (sv_exc = SingularHessian /\ sv_ret = Unbound)
    /\ it_exc = SingularHessian => it_yielded = ExpectedPairs

C5_Witness ==
    /\ sv_exc = SingularHessian /\ sv_ret = Unbound
    /\ it_exc = SingularHessian /\ Len(it_yielded) >= 2

\* C6 as claimed: in streaming mode the final log has been emitted once the
\* consumer has exhausted the sequence and also once it has abandoned it
\* after at least one yielded pair.
C6_FinalLogAlsoWhenAbandoned ==
    (it_pc = "Exhausted" \/ (it_pc = "Closed" /\ Len(it_yielded) >= 1)) =>
        FinalLogged(it_log)

\* C6 amended: the final log (iteration count, final misfit, final goal
\* value, elapsed time) is emitted exactly when the consumer exhausts the
\* sequence; a generator the consumer abandons never emits it.
C6_FinalLogOnlyWhenExhausted ==
    /\ it_pc = "Exhausted" =>
          it_log = << <<"Estimating relief of a triangular basin:">>,
                      <<"  iterate: True">>,
                      <<"  number of iterations: %d", Len(script) - 1>>,
                      <<"  final data misfit: %g",
                        Last(script).misfits[Len(Last(script).misfits)]>>,
                      <<"  final goal function: %g",
                        Last(script).goals[Len(Last(script).goals)]>>,
                      <<"  time: %s">> >>
    /\ it_pc # "Exhausted" => ~FinalLogged(it_log)

C6_Witness ==
    /\ it_pc = "Exhausted" /\ FinalLogged(it_log)
    /\ Len(Last(script).misfits) >= 2

\* C10: a solver that ends without error after zero change sets makes
\* iterate=False raise an unbound-variable error instead of returning, and
\* makes the iterate=True sequence raise it on the first request, with no
\* pair yielded; with one or more change sets both modes end normally.
C10_EmptySolverRaises ==
    solverEnd = "StopIteration" =>
        /\ sv_pc \in {"Returned", "Raised"} =>
              IF Len(script) = 0
              THEN sv_pc = "Raised" /\ sv_exc = "UnboundLocalError"
                   /\ sv_ret = Unbound
              ELSE sv_pc = "Returned" /\ sv_exc = None /\ sv_ret # Unbound
        /\ it_pc \in {"Exhausted", "Raised"} =>
              IF Len(script) = 0
              THEN it_pc = "Raised" /\ it_exc = "UnboundLocalError"
                   /\ it_yielded = <<>>
              ELSE it_pc = "Exhausted" /\ it_exc = None

C10_Witness ==
    /\ Len(script) = 0 /\ solverEnd = "StopIteration"
    /\ sv_exc = "UnboundLocalError" /\ it_exc = "UnboundLocalError"

(***************************************************************************)
(* Properties of the data module, under SpecDM.                            *)
(***************************************************************************)
LengthsAgree ==
    Len(in_xp) = Len(in_zp) /\ Len(in_zp) = Len(in_data)

\* The interval: the last entry of self.delta.
Step == ValueOf(dm).delta[3]

\* v times the interval, for a quotient v = <<n, d>> by the interval.
Scaled(v) == (v[1] * Step) \div v[2]

\* The polygon with the free vertex at (x, z).
Triangle(x, z) ==
    LET v == ValueOf(dm).verts IN
    [xs |-> <<v[1][1], v[2][1], x>>, zs |-> <<v[1][2], v[2][2], z>>]

\* C3: __init__ given xp, zp and data whose lengths do not all agree raises
\* the input-shape error and constructs no module.
C3_DisagreeingLengthsRejected ==
    (dm_pc # "NotConstructed" /\ ~LengthsAgree) =>
        (dm_pc = "Failed" /\ dm_exc = ShapeError /\ dm = Unbound)

\* C4: with xp, zp and data of one length, __init__ succeeds exactly when
\* verts has 2 elements; any other count raises the vertex-count error
\* with no attribute stored.
C4_ExactlyTwoVertices ==
    (dm_pc # "NotConstructed" /\ LengthsAgree) =>
        IF Len(in_verts) = 2
        THEN dm_pc = "Constructed" /\ dm_exc = None /\ dm # Unbound
        ELSE dm_pc = "Failed" /\ dm = Unbound
             /\ dm_exc = "ValueError: Need exactly 2 vertices"

C4_Witness ==
    dm_pc = "Failed" /\ LengthsAgree /\ Len(in_verts) = 3

\* C7 as claimed: sum_gradient returns gradient + 2 * (jac_T . residuals).
C7_GradientPlusContribution ==
    op.name = "sum_gradient" =>
        \A j \in 1..2 :
            LET r == ValueOf(op.result)[j]
                J == ValueOf(jac_T)[j]
            IN r[1] * Step = r[2] * (op.acc[j] * Step
                 + 2 * Sum([k \in 1..Len(J) |-> Scaled(J[k]) * op.residuals[k]]))

\* C7 amended: sum_gradient returns gradient - 2 * (jac_T . residuals),
\* where jac_T is the 2 x N matrix it has just cached at p; the accumulator
\* it was given is left as it was.
C7_GradientMinusContribution ==
    op.name = "sum_gradient" =>
        /\ gradP = Bound(op.p)
        /\ Len(ValueOf(jac_T)) = 2
        /\ op.acc_after = op.acc
        /\ \A j \in 1..2 :
            LET r == ValueOf(op.result)[j]
                J == ValueOf(jac_T)[j]
            IN /\ Len(J) = Len(ValueOf(dm).xp)
               /\ r[2] > 0
               /\ r[1] * Step = r[2] * (op.acc[j] * Step
                    - 2 * Sum([k \in 1..Len(J) |-> Scaled(J[k]) * op.residuals[k]]))

C7_Witness ==
    /\ op.name = "sum_gradient"
    /\ Len(op.residuals) >= 2
    /\ \A j \in 1..2 : ValueOf(op.result)[j] # RInt(op.acc[j])

\* C8, the value: sum_hessian returns hessian + 2 * J . J^T with J the
\* Jacobian-transpose of the most recent sum_gradient call, at that call's
\* point and not at the point now passed; with no sum_gradient call before
\* it, it raises instead.
C8_HessianValue ==
    op.name = "sum_hessian" =>
        IF gradP = Unbound
        THEN op.exc = "AttributeError" /\ op.result = Unbound /\ jac_T = Unbound
        ELSE /\ op.exc = None
             /\ jac_T = Bound(Jacobian(ValueOf(dm), ValueOf(gradP)).jac_T)
             /\ \A a \in 1..2, b \in 1..2 :
                LET r == ValueOf(op.result)[a][b]
                    J == Jacobian(ValueOf(dm), ValueOf(gradP)).jac_T
                IN r[1] * Step * Step = r[2] * (op.acc[a][b] * Step * Step
                     + 2 * Sum([k \in 1..Len(J[a]) |->
                                   Scaled(J[a][k]) * Scaled(J[b][k])]))

\* C8: the value above after any sequence of calls, and the cache is left
\* alone by get_predicted and sum_hessian.
C8_HessianUsesLastGradientCache ==
    /\ []C8_HessianValue
    /\ [][op'.name \in {"get_predicted", "sum_hessian"} => jac_T' = jac_T]_vars

C8_Witness ==
    /\ op.name = "sum_hessian" /\ op.exc = None
    /\ gradP # Bound(op.p)
    /\ jac_T # Bound(Jacobian(ValueOf(dm), op.p).jac_T)

\* C9 as claimed: both rows of the cached Jacobian-transpose come from a
\* forward evaluation in which only the free vertex's z is perturbed; no
\* x-coordinate is ever perturbed.
C9_OnlyZPerturbed ==
    op.name = "sum_gradient" =>
        \A i \in 2..3 : kcalls[i] = Triangle(op.p[1], op.p[2] + Step)

\* C9 amended: the interval is applied to the free vertex only, to its x for
\* the x-derivative row and to its z for the z-derivative row; the fixed
\* vertices are never perturbed.
C9_FreeVertexXThenZ ==
    op.name = "sum_gradient" =>
        LET c0 == Triangle(op.p[1], op.p[2])
            cx == Triangle(op.p[1] + Step, op.p[2])
            cz == Triangle(op.p[1], op.p[2] + Step)
            self == ValueOf(dm)
            J == ValueOf(jac_T)
        IN /\ kcalls = <<c0, cx, cz>>
           /\ \A k \in 1..Len(self.xp) :
                /\ J[1][k][1] * Step =
                     J[1][k][2] * (Forward(self, cx)[k] - Forward(self, c0)[k])
                /\ J[2][k][1] * Step =
                     J[2][k][2] * (Forward(self, cz)[k] - Forward(self, c0)[k])

C9_Witness ==
    /\ op.name = "sum_gradient"
    /\ ValueOf(jac_T)[1] # ValueOf(jac_T)[2]
    /\ Step >= 2
====
